---- MODULE Spec2Model ----
(***************************************************************************)
(* Model of utils.Request (one GET with classified, bounded retry) and of  *)
(* utils.safe_print (the lock-guarded console write), as several callers   *)
(* construct Request objects concurrently.                                 *)
(*                                                                         *)
(* One session = one execution of Request.__init__, which runs             *)
(* handle_get_request to completion.  Each session walks through the       *)
(* statements of make_get_request / handle_get_request / safe_print; the   *)
(* position is pc[t].                                                      *)
(***************************************************************************)
EXTENDS Integers, Sequences, FiniteSets, TLC

\* ---------------------------------------------------------------- bounds
NumSessions == 2
Sessions == 1..NumSessions

\* ------------------------------------------------------ program constants
\* Request.__init__
retry_max == 3
retry_status == {500, 503, 504}
\* requests.codes.ok
ok == 200
\* Python's None as the value of self.status
None == -1
timeout == 10
\* retry_sleep, in tenths of a second (2.5)
retry_sleep == 25
\* get_random_useragent: the pool, by position in the list
NumUserAgents == 15
UserAgents == 1..NumUserAgents
\* The addresses a caller may ask for.
Urls == {"u1", "u2"}

\* ------------------------------------------------- requests' exceptions
\* The exception classes requests.get / raise_for_status raise, and the
\* classes the except clauses name, with their base classes.
Bases(c) ==
    CASE c = "ConnectTimeout"       -> {"ConnectTimeout", "ConnectionError", "Timeout", "RequestException"}
      [] c = "ConnectionError"      -> {"ConnectionError", "RequestException"}
      [] c = "SSLError"             -> {"SSLError", "ConnectionError", "RequestException"}
      [] c = "HTTPError"            -> {"HTTPError", "RequestException"}
      [] c = "TooManyRedirects"     -> {"TooManyRedirects", "RequestException"}
      [] c = "ChunkedEncodingError" -> {"ChunkedEncodingError", "RequestException"}
      [] OTHER                      -> {c}

\* The except clauses of make_get_request, in source order.
Clauses ==
    << {"Timeout"},
       {"ConnectionError", "HTTPError"},
       {"TooManyRedirects"},
       {"SSLError"},
       {"RequestException"} >>

Matches(c, i) == Bases(c) \cap Clauses[i] # {}

\* Index of the first except clause that catches class c (0: none does).
Handler(c) ==
    IF \E i \in 1..Len(Clauses) : Matches(c, i)
    THEN CHOOSE i \in 1..Len(Clauses) :
            Matches(c, i) /\ \A j \in 1..(i - 1) : ~Matches(c, j)
    ELSE 0

\* ------------------------------------------------------ server outcomes
\* What one call of requests.get can produce: a response with a status
\* code, or an exception raised before any response object exists.
Answer(c)  == [exc |-> "none", code |-> c]
Failure(e) == [exc |-> e, code |-> 0]

StatusCodes == {200, 204, 403, 404, 500, 503, 504}
TransportErrors == {"ConnectTimeout", "ConnectionError", "SSLError",
                    "TooManyRedirects", "ChunkedEncodingError"}
Outcomes == {Answer(c) : c \in StatusCodes} \cup {Failure(e) : e \in TransportErrors}
\* The outcomes drawn when several sessions run side by side.
ConcOutcomes == {Answer(200), Answer(503), Failure("ConnectTimeout")}

\* ------------------------------------------------------ response values
Unbound == [tag |-> "unbound", id |-> 0, code |-> 0]
NoResponse == [tag |-> "none", id |-> 0, code |-> 0]
ResponseObj(i, c) == [tag |-> "obj", id |-> i, code |-> c]

\* Response.raise_for_status: raises HTTPError for 4xx and 5xx.
RaisesForStatus(c) == 400 <= c /\ c < 600

\* handle_get_request: response.status_code if response is not None else None
StatusOf(r) == IF r.tag = "obj" THEN r.code ELSE None

\* handle_get_request: self.status not in self.retry_status
Retryable_all(s) == TRUE
Retryable_404(s) == s \in retry_status \cup {404}
Retryable(s) == s \in retry_status

\* handle_get_request: self.attempt > self.retry_max
ExceededRetries_ge(a) == a >= retry_max
ExceededRetries_one(a) == a > 1
ExceededRetries(a) == a > retry_max

\* handle_get_request: while self.status != requests.codes.ok
LoopCond(s) == s # ok

\* make_get_request, finally: response is not None and not self.stream
ShouldClose_inverted(r, s) == r.tag = "obj" /\ s
ShouldClose(r, s) == r.tag = "obj" /\ ~s

\* print: what a write to the console can do.  A healthy console takes the
\* text; a failing one (closed pipe) may raise OSError instead.
WriteResults(c) == IF c = "ok" THEN {"written"} ELSE {"written", "OSError"}

\* safe_print, leaving the with-block: the lock is released whether or not
\* print raised.
Released_onsuccess(l, e) == IF e = "OSError" THEN l ELSE "free"
Released(l, e) == "free"

\* make_get_request: headers=self.headers, as passed to requests.get for
\* the n-th attempt.
HeaderSent_rotating(h, n) == ((h + n - 2) % NumUserAgents) + 1
HeaderSent(h, n) == h

\* The Request object whose attempt counter session t reads and writes.
Counter_shared(t) == 1
Counter(t) == t

\* The text safe_print is called with by except clause i.
Message(i, r) ==
    CASE i = 1 -> "Timeout"
      [] i = 2 -> IF r.code = 403 THEN "Forbidden" ELSE "Error unreachable"
      [] i = 3 -> "Error redirections"
      [] i = 4 -> "Error SSL"
      [] OTHER -> "Ambiguous error"

VARIABLES
    callers,     \* the execution contexts that construct a Request
    menu,        \* the outcomes the server and network can produce
    console,     \* "ok", or "failing" when a write to stdout may raise
    urls,        \* the addresses the callers ask for
    agents,      \* the pool get_random_useragent draws from
    modes,       \* the stream flags the callers pass
    url,         \* self.url
    headers,     \* self.headers["User-Agent"]
    config,      \* self.timeout, retry_status, retry_max, retry_sleep
    sent,        \* url, header, timeout and stream flag of each requests.get
    pc,          \* position of each session
    stream,      \* self.stream
    status,      \* self.status
    attempt,     \* self.attempt
    resp,        \* make_get_request's local `response`
    exc,         \* the exception being handled or propagating ("none")
    result,      \* handle_get_request's local `response`
    response,    \* self.response
    print_lock,  \* the Lock object of the session's current safe_print call
    log,         \* outcome of each physical attempt so far
    sleeps,      \* number of time.sleep calls so far
    closed,      \* ids of the response objects closed so far
    reports,     \* messages written under a lock held by the writer
    direct       \* number of console writes made with no lock held

vars == << callers, menu, console, urls, agents, modes, url, headers, config, sent,
           pc, stream, status, attempt, resp, exc, result,
           response, print_lock, log, sleeps, closed, reports, direct >>

env == << callers, menu, console, urls, agents, modes >>

\* The attributes __init__ sets and nothing else assigns.
fixed == << url, headers, config >>

\* Request.__init__: the attributes set from literals.
Configuration ==
    [timeout |-> timeout, retry_status |-> retry_status,
     retry_max |-> retry_max, retry_sleep |-> retry_sleep]

NoConfiguration ==
    [timeout |-> 0, retry_status |-> {}, retry_max |-> 0, retry_sleep |-> 0]

Upd(f, t, v) == [f EXCEPT ![t] = v]

Unset == [tag |-> "unset", id |-> 0, code |-> 0]

\* No Request has been constructed yet.
Idle ==
    /\ pc = [t \in Sessions |-> "idle"]
    /\ url = [t \in Sessions |-> ""]
    /\ headers = [t \in Sessions |-> 0]
    /\ config = [t \in Sessions |-> NoConfiguration]
    /\ sent = [t \in Sessions |-> << >>]
    /\ stream = [t \in Sessions |-> FALSE]
    /\ status = [t \in Sessions |-> 0]
    /\ attempt = [t \in Sessions |-> 1]
    /\ resp = [t \in Sessions |-> Unbound]
    /\ exc = [t \in Sessions |-> "none"]
    /\ result = [t \in Sessions |-> Unbound]
    /\ response = [t \in Sessions |-> Unset]
    /\ print_lock = [t \in Sessions |-> "free"]
    /\ log = [t \in Sessions |-> << >>]
    /\ sleeps = [t \in Sessions |-> 0]
    /\ closed = [t \in Sessions |-> {}]
    /\ reports = [t \in Sessions |-> << >>]
    /\ direct = [t \in Sessions |-> 0]

\* One caller, every outcome the network can produce.
Init ==
    /\ callers = {1}
    /\ menu = Outcomes
    /\ console = "ok"
    /\ urls = Urls
    /\ agents = UserAgents
    /\ modes = BOOLEAN
    /\ Idle

\* Every caller constructs a non-streaming Request, side by side.
InitConc ==
    /\ callers = Sessions
    /\ menu = ConcOutcomes
    /\ console = "ok"
    /\ urls = {"u1"}
    /\ agents = {1}
    /\ modes = {FALSE}
    /\ Idle

\* One caller whose standard output may fail on any write.
InitIO ==
    /\ callers = {1}
    /\ menu = Outcomes
    /\ console = "failing"
    /\ urls = {"u1"}
    /\ agents = {1}
    /\ modes = BOOLEAN
    /\ Idle

\* Request.__init__, up to the call of handle_get_request.
Start(t) ==
    /\ t \in callers
    /\ pc[t] = "idle"
    /\ \E s \in modes : stream' = Upd(stream, t, s)
    /\ \E u \in urls : url' = Upd(url, t, u)
    /\ \E a \in agents : headers' = Upd(headers, t, a)
    /\ config' = Upd(config, t, Configuration)
    /\ status' = Upd(status, t, 0)
    /\ attempt' = Upd(attempt, t, 1)
    /\ pc' = Upd(pc, t, "while")
    /\ UNCHANGED << env, sent, resp, exc, result, response, print_lock, log,
                    sleeps, closed, reports, direct >>

\* handle_get_request: the while test.
While(t) ==
    /\ pc[t] = "while"
    /\ pc' = Upd(pc, t, IF LoopCond(status[t]) THEN "get" ELSE "return")
    /\ UNCHANGED << env, fixed, sent, stream, status, attempt, resp, exc, result, response,
                    print_lock, log, sleeps, closed, reports, direct >>

\* make_get_request, the try block: requests.get and raise_for_status.
Get(t) ==
    /\ pc[t] = "get"
    /\ sent' = Upd(sent, t, Append(sent[t],
                [url |-> url[t], header |-> HeaderSent(headers[t], Len(log[t]) + 1),
                 timeout |-> config[t].timeout, stream |-> stream[t]]))
    /\ \E o \in menu :
        /\ log' = Upd(log, t, Append(log[t], o))
        /\ IF o.exc = "none"
           THEN /\ resp' = Upd(resp, t, ResponseObj(Len(log[t]) + 1, o.code))
                /\ IF RaisesForStatus(o.code)
                   THEN /\ exc' = Upd(exc, t, "HTTPError")
                        /\ pc' = Upd(pc, t, "except")
                   ELSE /\ exc' = Upd(exc, t, "none")
                        /\ pc' = Upd(pc, t, "finally")
           ELSE /\ resp' = Upd(resp, t, Unbound)
                /\ exc' = Upd(exc, t, o.exc)
                /\ pc' = Upd(pc, t, "except")
    /\ UNCHANGED << env, fixed, stream, status, attempt, result, response, print_lock,
                    sleeps, closed, reports, direct >>

\* make_get_request: the matching except clause is entered.  The clause
\* for ConnectionError and HTTPError first reads response.status_code; with
\* `response` never assigned that read raises UnboundLocalError.
Except(t) ==
    /\ pc[t] = "except"
    /\ IF Handler(exc[t]) = 2 /\ resp[t].tag = "unbound"
       THEN /\ exc' = Upd(exc, t, "UnboundLocalError")
            /\ pc' = Upd(pc, t, "finally")
       ELSE /\ exc' = exc
            /\ pc' = Upd(pc, t, "sp_lock")
    /\ UNCHANGED << env, fixed, sent, stream, status, attempt, resp, result, response,
                    print_lock, log, sleeps, closed, reports, direct >>

\* safe_print: print_lock = Lock(); with print_lock (enter).  The Lock is
\* created by this very call, so it is the call's own and is never taken.
SpLock(t) ==
    /\ pc[t] = "sp_lock"
    /\ print_lock[t] = "free"
    /\ print_lock' = Upd(print_lock, t, "locked")
    /\ pc' = Upd(pc, t, "sp_print")
    /\ UNCHANGED << env, fixed, sent, stream, status, attempt, resp, exc, result, response,
                    log, sleeps, closed, reports, direct >>

\* safe_print: print(*a, **b).  A write that fails raises out of print.
SpPrint(t) ==
    /\ pc[t] = "sp_print"
    /\ \E w \in WriteResults(console) :
        IF w = "written"
        THEN /\ reports' = Upd(reports, t, Append(reports[t], Message(Handler(exc[t]), resp[t])))
             /\ exc' = exc
        ELSE /\ reports' = reports
             /\ exc' = Upd(exc, t, "OSError")
    /\ pc' = Upd(pc, t, "sp_unlock")
    /\ UNCHANGED << env, fixed, sent, stream, status, attempt, resp, result, response,
                    print_lock, log, sleeps, closed, direct >>

\* safe_print: with print_lock (exit).  An exception raised by print leaves
\* safe_print and the except clause, and the finally block runs next.
SpUnlock(t) ==
    /\ pc[t] = "sp_unlock"
    /\ print_lock' = Upd(print_lock, t, Released(print_lock[t], exc[t]))
    /\ pc' = Upd(pc, t, IF exc[t] = "OSError" THEN "finally" ELSE "tail")
    /\ UNCHANGED << env, fixed, sent, stream, status, attempt, resp, exc, result, response,
                    log, sleeps, closed, reports, direct >>

\* make_get_request: what the except clause does after safe_print returned:
\* response = None (Timeout), print(e) (ConnectionError, HTTPError), nothing.
HandlerTail(t) ==
    /\ pc[t] = "tail"
    /\ resp' = IF Handler(exc[t]) = 1 THEN Upd(resp, t, NoResponse) ELSE resp
    /\ \E w \in (IF Handler(exc[t]) = 2 THEN WriteResults(console) ELSE {"written"}) :
        IF w = "written"
        THEN /\ direct' = IF Handler(exc[t]) = 2
                          THEN Upd(direct, t, direct[t] + 1) ELSE direct
             /\ exc' = Upd(exc, t, "none")
        ELSE /\ direct' = direct
             /\ exc' = Upd(exc, t, "OSError")
    /\ pc' = Upd(pc, t, "finally")
    /\ UNCHANGED << env, fixed, sent, stream, status, attempt, result, response, print_lock,
                    log, sleeps, closed, reports >>

\* make_get_request: the finally block and the return.  Testing a
\* `response` that was never assigned raises UnboundLocalError; an exception
\* still propagating leaves make_get_request, handle_get_request and
\* __init__.
Finally(t) ==
    /\ pc[t] = "finally"
    /\ IF resp[t].tag = "unbound"
       THEN /\ exc' = Upd(exc, t, "UnboundLocalError")
            /\ pc' = Upd(pc, t, "raised")
            /\ closed' = closed
       ELSE /\ exc' = exc
            /\ closed' = IF ShouldClose(resp[t], stream[t])
                         THEN Upd(closed, t, closed[t] \cup {resp[t].id})
                         ELSE closed
            /\ pc' = Upd(pc, t, IF exc[t] = "none" THEN "handle" ELSE "raised")
    /\ UNCHANGED << env, fixed, sent, stream, status, attempt, resp, result, response,
                    print_lock, log, sleeps, reports, direct >>

\* handle_get_request: from the assignment of response to the break tests.
Handle(t) ==
    /\ pc[t] = "handle"
    /\ result' = Upd(result, t, resp[t])
    /\ status' = Upd(status, t, StatusOf(resp[t]))
    /\ IF ~Retryable(StatusOf(resp[t]))
       THEN /\ attempt' = attempt
            /\ pc' = Upd(pc, t, "return")
       ELSE /\ attempt' = Upd(attempt, Counter(t), attempt[Counter(t)] + 1)
            /\ pc' = Upd(pc, t, IF ExceededRetries(attempt[Counter(t)] + 1)
                                THEN "return" ELSE "sleep")
    /\ UNCHANGED << env, fixed, sent, stream, resp, exc, response, print_lock, log, sleeps,
                    closed, reports, direct >>

\* handle_get_request: time.sleep(self.retry_sleep).
Sleep(t) ==
    /\ pc[t] = "sleep"
    /\ sleeps' = Upd(sleeps, t, sleeps[t] + 1)
    /\ pc' = Upd(pc, t, "while")
    /\ UNCHANGED << env, fixed, sent, stream, status, attempt, resp, exc, result, response,
                    print_lock, log, closed, reports, direct >>

\* handle_get_request returns; __init__ stores self.response.
Return(t) ==
    /\ pc[t] = "return"
    /\ response' = Upd(response, t, result[t])
    /\ pc' = Upd(pc, t, "done")
    /\ UNCHANGED << env, fixed, sent, stream, status, attempt, resp, exc, result, print_lock,
                    log, sleeps, closed, reports, direct >>

Next ==
    \E t \in Sessions :
        \/ Start(t)
        \/ While(t)
        \/ Get(t)
        \/ Except(t)
        \/ SpLock(t)
        \/ SpPrint(t)
        \/ SpUnlock(t)
        \/ HandlerTail(t)
        \/ Finally(t)
        \/ Handle(t)
        \/ Sleep(t)
        \/ Return(t)

Spec == Init /\ [][Next]_vars

SpecConc == InitConc /\ [][Next]_vars

SpecIO == InitIO /\ [][Next]_vars

\* ------------------------------------------------------------ vocabulary
Done(t) == pc[t] = "done"
Raised(t) == pc[t] = "raised"
Ended(t) == Done(t) \/ Raised(t)
Attempts(t) == Len(log[t])
\* Attempt i of session t produced a response object.
GotResponse(t, i) == log[t][i].exc = "none"
\* Every attempt so far was answered 500, 503 or 504.
AllRetryable(t) ==
    \A i \in 1..Attempts(t) : GotResponse(t, i) /\ log[t][i].code \in {500, 503, 504}
\* Session t is inside make_get_request for its latest attempt.
InAttempt(t) ==
    pc[t] \in {"except", "sp_lock", "sp_print", "sp_unlock", "tail", "finally", "raised"}
\* Attempt i of session t has returned to handle_get_request.
AttemptReturned(t, i) == i < Attempts(t) \/ (i = Attempts(t) /\ ~InAttempt(t))
\* Session t is inside the with-block of safe_print.
InPrint(t) == pc[t] \in {"sp_print", "sp_unlock"}

\* ---------------------------------------------------------------- C1
\* C1 (as claimed): a session whose every attempt is answered 500, 503 or
\* 504 ends after exactly 4 attempts and 3 sleeps and returns the response
\* of attempt 4.
C1_FourAttempts ==
    \A t \in Sessions :
        (Done(t) /\ AllRetryable(t)) =>
            /\ Attempts(t) = 4
            /\ sleeps[t] = 3
            /\ response[t] = ResponseObj(4, log[t][4].code)

\* C1 (amended): a session whose every attempt is answered 500, 503 or 504
\* makes exactly 3 attempts (1 initial + 2 retries), has slept once before
\* each attempt after the first (2 sleeps), never raises, and returns the
\* response of attempt 3.
C1_ThreeAttempts ==
    \A t \in Sessions :
        (Attempts(t) >= 1 /\ AllRetryable(t)) =>
            /\ Attempts(t) <= 3
            /\ ~Raised(t)
            /\ pc[t] = "get" => sleeps[t] = Attempts(t)
            /\ InAttempt(t) => sleeps[t] = Attempts(t) - 1
            /\ Done(t) =>
                /\ Attempts(t) = 3
                /\ sleeps[t] = 2
                /\ response[t] = ResponseObj(3, log[t][3].code)

C1_Witness ==
    \E t \in Sessions :
        /\ Done(t) /\ AllRetryable(t)
        /\ Attempts(t) = 3 /\ sleeps[t] = 2
        /\ response[t].tag = "obj" /\ response[t].id = 3

\* ---------------------------------------------------------------- C2
\* C2: no two callers are inside safe_print's with-block at the same time.
C2_MutualExclusion ==
    \A s, t \in Sessions : (s # t) => ~(InPrint(s) /\ InPrint(t))

\* ---------------------------------------------------------------- C3
\* C3: no failure of an attempt propagates out of the session: no session
\* ever ends by raising, and an ended session holds a response object or
\* None.
C3_NothingPropagates ==
    \A t \in Sessions :
        /\ ~Raised(t)
        /\ Done(t) => response[t].tag \in {"obj", "none"}

\* ---------------------------------------------------------------- C4
\* C4: a session whose first attempt times out or fails TLS verification
\* ends normally with status None, one attempt, no sleep and response None.
C4_TransportFailureIsTerminal ==
    \A t \in Sessions :
        (Attempts(t) >= 1 /\ log[t][1].exc \in {"ConnectTimeout", "SSLError"}) =>
            /\ Attempts(t) = 1
            /\ sleeps[t] = 0
            /\ status[t] \notin {500, 503, 504}
            /\ Ended(t) => (Done(t) /\ status[t] = None /\ response[t] = NoResponse)

\* ---------------------------------------------------------------- C5
\* C5: a session whose first attempt is answered 200 makes exactly one
\* attempt, never sleeps, never raises, and returns that attempt's response.
C5_OkFirst ==
    \A t \in Sessions :
        (Attempts(t) >= 1 /\ log[t][1] = Answer(200)) =>
            /\ Attempts(t) = 1
            /\ sleeps[t] = 0
            /\ ~Raised(t)
            /\ pc[t] # "sleep"
            /\ Done(t) => response[t] = ResponseObj(1, 200)

C5_Witness ==
    \E t \in Sessions :
        Done(t) /\ log[t] = << Answer(200) >> /\ response[t] = ResponseObj(1, 200)

\* ---------------------------------------------------------------- C6
\* C6: a session whose first attempt is answered a status that is neither
\* 200 nor 500, 503, 504 makes exactly one attempt, never sleeps, never
\* raises, and returns that attempt's response object.
C6_NonRetryableFirst ==
    \A t \in Sessions :
        (/\ Attempts(t) >= 1
         /\ GotResponse(t, 1)
         /\ log[t][1].code \notin {200, 500, 503, 504}) =>
            /\ Attempts(t) = 1
            /\ sleeps[t] = 0
            /\ ~Raised(t)
            /\ pc[t] # "sleep"
            /\ Done(t) => response[t] = ResponseObj(1, log[t][1].code)

C6_Witness ==
    \E t \in Sessions :
        /\ Done(t) /\ log[t] = << Answer(404) >> /\ response[t] = ResponseObj(1, 404)
        /\ sleeps[t] = 0

\* ---------------------------------------------------------------- C7
\* C7: a session answered 503 does not end before a second attempt; when
\* the second attempt is answered 200 there are exactly 2 attempts, exactly
\* one sleep, and the returned response is the 200 response of attempt 2.
C7_RetryThenOk ==
    \A t \in Sessions :
        /\ (Attempts(t) >= 1 /\ log[t][1] = Answer(503) /\ Ended(t)) =>
                Attempts(t) >= 2
        /\ (Attempts(t) >= 2 /\ log[t][1] = Answer(503) /\ log[t][2] = Answer(200)) =>
                /\ Attempts(t) = 2
                /\ sleeps[t] = 1
                /\ ~Raised(t)
                /\ Done(t) => response[t] = ResponseObj(2, 200)

C7_Witness ==
    \E t \in Sessions :
        /\ Done(t) /\ log[t] = << Answer(503), Answer(200) >>
        /\ sleeps[t] = 1 /\ response[t] = ResponseObj(2, 200)

\* ---------------------------------------------------------------- C8
\* C8: in a streaming session every response object obtained by an attempt
\* that has returned is closed, unless it is the last attempt's successful
\* (2xx) response.
C8_StreamingAttemptScoped ==
    \A t \in Sessions :
        stream[t] =>
            \A i \in 1..Attempts(t) :
                (/\ GotResponse(t, i)
                 /\ AttemptReturned(t, i)
                 /\ ~(/\ i = Attempts(t)
                      /\ log[t][i].code >= 200 /\ log[t][i].code < 300)) =>
                    i \in closed[t]

\* ---------------------------------------------------------------- C9
\* C9: in a non-streaming session every response object obtained by an
\* attempt that has returned is closed; in a streaming session no response
\* of a successful (2xx) attempt is ever closed.
C9_CloseUnlessStreaming ==
    \A t \in Sessions :
        \A i \in 1..Attempts(t) :
            /\ (~stream[t] /\ GotResponse(t, i) /\ AttemptReturned(t, i)) =>
                    i \in closed[t]
            /\ (/\ stream[t]
                /\ GotResponse(t, i)
                /\ log[t][i].code >= 200 /\ log[t][i].code < 300) =>
                    i \notin closed[t]

C9_Witness ==
    \E t \in Sessions :
        /\ ~stream[t] /\ Done(t)
        /\ log[t] = << Answer(503), Answer(200) >>
        /\ closed[t] = {1, 2}

\* ---------------------------------------------------------------- C10
\* C10: no attempt writes to the console outside safe_print's with-block.
C10_NoDirectWrite ==
    \A t \in Sessions : direct[t] = 0

\* ---------------------------------------------------------------- C11
\* C11: a session ends only by leaving the loop through one of its two
\* exits: it ends by returning, after between 1 and 4 attempts, with a last
\* status that is not 500, 503 or 504 or with the attempt counter above 3.
C11_EndsThroughTheTwoExits ==
    \A t \in Sessions :
        Ended(t) =>
            /\ Done(t)
            /\ Attempts(t) >= 1 /\ Attempts(t) <= 4
            /\ status[t] \notin {500, 503, 504} \/ attempt[t] > 3

\* ---------------------------------------------------------------- C12
\* C12: the lock of safe_print is held only inside its with-block: it is
\* free again once safe_print is left, also when print raised, and it is
\* never held while the session issues a request or sleeps.
C12_LockOnlyAroundPrint ==
    \A t \in Sessions :
        /\ print_lock[t] = "locked" => InPrint(t)
        /\ pc[t] \in {"get", "sleep", "finally", "raised", "done"} => print_lock[t] = "free"

\* A write inside safe_print failed, and the session left with the lock free.
C12_Witness ==
    \E t \in Sessions :
        /\ Raised(t) /\ exc[t] = "OSError"
        /\ reports[t] = << >> /\ direct[t] = 0
        /\ print_lock[t] = "free"

\* ---------------------------------------------------------------- C13
\* The latest attempt was answered 500, 503 or 504.
LastRetryable(t) ==
    /\ Attempts(t) >= 1
    /\ GotResponse(t, Attempts(t))
    /\ log[t][Attempts(t)].code \in {500, 503, 504}

\* C13: the number of sleeps is the number of attempts minus one whenever
\* an attempt is under way or the session has ended; a session sleeps only
\* right after an attempt answered 500, 503 or 504; and once it has slept it
\* is on its way to the next attempt (so no sleep follows the last attempt).
C13_SleepOnlyBetweenAttempts ==
    \A t \in Sessions :
        /\ sleeps[t] <= Attempts(t)
        /\ Attempts(t) >= 1 => sleeps[t] >= Attempts(t) - 1
        /\ (Ended(t) \/ InAttempt(t)) => sleeps[t] = Attempts(t) - 1
        /\ pc[t] = "sleep" => (LastRetryable(t) /\ sleeps[t] = Attempts(t) - 1)
        /\ (Attempts(t) >= 1 /\ sleeps[t] = Attempts(t)) =>
                /\ pc[t] \in {"while", "get"}
                /\ LastRetryable(t)
                /\ status[t] # 200

C13_Witness ==
    \E t \in Sessions :
        /\ Done(t)
        /\ log[t] = << Answer(500), Answer(504), Answer(404) >>
        /\ sleeps[t] = 2

\* ---------------------------------------------------------------- C14
\* Attempt i of session t ended with a 2xx response and no exception.
Succeeded(t, i) ==
    GotResponse(t, i) /\ log[t][i].code >= 200 /\ log[t][i].code < 300
FailedAttempts(t) == {i \in 1..Attempts(t) : ~Succeeded(t, i)}
\* Session t is between the start and the end of make_get_request.
AttemptRunning(t) ==
    pc[t] \in {"except", "sp_lock", "sp_print", "sp_unlock", "tail", "finally"}

\* C14: once an attempt is over, safe_print has written exactly one report
\* for every failed attempt so far and none for the successful ones.
C14_EveryFailureReported ==
    \A t \in Sessions :
        ~AttemptRunning(t) => Len(reports[t]) = Cardinality(FailedAttempts(t))

\* ---------------------------------------------------------------- C15
\* What a requests.get of session t is issued with, by its attributes.
Issued(t) ==
    [url |-> url'[t], header |-> headers'[t], timeout |-> 10, stream |-> stream'[t]]

\* C15: once a session is constructed no step changes its url, streaming
\* flag, User-Agent header, timeout or retry configuration, which hold the
\* values given at construction; and every requests.get of the session is
\* issued with that url, that header, that timeout and that flag.
C15_ConfigurationFixed ==
    [][\A t \in Sessions :
          /\ pc[t] # "idle" =>
                /\ url'[t] = url[t]
                /\ headers'[t] = headers[t]
                /\ stream'[t] = stream[t]
                /\ config'[t] = config[t]
          /\ pc'[t] # "idle" =>
                /\ url'[t] \in {"u1", "u2"}
                /\ headers'[t] \in 1..15
                /\ config'[t] = [timeout |-> 10, retry_status |-> {500, 503, 504},
                                 retry_max |-> 3, retry_sleep |-> 25]
          /\ \A i \in 1..Len(sent'[t]) : sent'[t][i] = Issued(t)]_vars

C15_Witness ==
    \E t \in Sessions :
        /\ Done(t) /\ Len(sent[t]) = 3
        /\ url[t] = "u2" /\ headers[t] = 7 /\ stream[t]
        /\ sent[t][1] = sent[t][3]
        /\ sent[t][3].header = 7 /\ sent[t][3].url = "u2"

\* ---------------------------------------------------------------- C16
\* C16: a step that makes a physical attempt makes exactly one, from the
\* place where no attempt is under way; an attempt after the first is made
\* only when the attempt before it has returned a response with status 500,
\* 503 or 504 and that status has been recorded; so every attempt but the
\* last was answered 500, 503 or 504.
C16_AttemptOnlyAfterRetryable ==
    [][\A t \in Sessions :
          /\ Len(log'[t]) # Len(log[t]) =>
                /\ Len(log'[t]) = Len(log[t]) + 1
                /\ pc[t] = "get" /\ ~InAttempt(t)
                /\ Attempts(t) >= 1 =>
                      /\ LastRetryable(t)
                      /\ status[t] = log[t][Attempts(t)].code
                      /\ result[t] = ResponseObj(Attempts(t), log[t][Attempts(t)].code)
          /\ \A i \in 1..(Len(log'[t]) - 1) :
                log'[t][i].exc = "none" /\ log'[t][i].code \in {500, 503, 504}]_vars

C16_Witness ==
    \E t \in Sessions :
        /\ Done(t)
        /\ log[t] = << Answer(503), Answer(500), Answer(200) >>
        /\ response[t] = ResponseObj(3, 200)

\* ---------------------------------------------------------------- C17
\* C17: when a session has returned, self.status is the status code of the
\* returned response object, or None when None was returned; and it is 500,
\* 503 or 504 only if the attempt counter is above 3.
C17_StatusAgreesWithResponse ==
    \A t \in Sessions :
        Done(t) =>
            /\ response[t].tag \in {"obj", "none"}
            /\ response[t].tag = "obj" => status[t] = response[t].code
            /\ response[t].tag = "none" => status[t] = None
            /\ status[t] \in {500, 503, 504} => attempt[t] > 3

C17_Witness ==
    \E t \in Sessions :
        /\ Done(t) /\ status[t] = 504 /\ attempt[t] = 4
        /\ response[t] = ResponseObj(3, 504)

\* ---------------------------------------------------------------- C18
\* C18: the attempt counter stays within 1..4, no step lowers it, a step
\* that changes it adds exactly 1 and is the step that handles an attempt
\* answered 500, 503 or 504, and the number of attempts made never exceeds
\* the counter.
C18_AttemptCounter ==
    [][\A t \in Sessions :
          /\ attempt'[t] \in 1..4
          /\ attempt'[t] >= attempt[t]
          /\ attempt'[t] # attempt[t] =>
                /\ attempt'[t] = attempt[t] + 1
                /\ pc[t] = "handle"
                /\ LastRetryable(t)
          /\ Len(log'[t]) <= attempt'[t]]_vars

C18_Witness ==
    \E t \in Sessions :
        /\ Done(t) /\ attempt[t] = 4 /\ Attempts(t) = 3
        /\ AllRetryable(t)

\* ---------------------------------------------------------------- C19
\* What a session that runs on its own, with a healthy console, does with
\* the outcomes os: the loop
\* of handle_get_request run from n attempts made, status st, counter a and
\* sl sleeps.  "running" when os ends before the loop does.
RECURSIVE RunAlone(_, _, _, _, _)
RunAlone(os, n, st, a, sl) ==
    IF n = Len(os)
    THEN [end |-> "running", attempts |-> n, sleeps |-> sl, status |-> st,
          response |-> Unset]
    ELSE LET o == os[n + 1]
             r == IF o.exc = "none" THEN ResponseObj(n + 1, o.code) ELSE NoResponse
         IN  IF o.exc # "none" /\ Handler(o.exc) # 1
             THEN [end |-> "raised", attempts |-> n + 1, sleeps |-> sl,
                   status |-> st, response |-> Unset]
             ELSE IF ~Retryable(StatusOf(r)) \/ ExceededRetries(a + 1)
                  THEN [end |-> "done", attempts |-> n + 1, sleeps |-> sl,
                        status |-> StatusOf(r), response |-> r]
                  ELSE IF ~LoopCond(StatusOf(r))
                       THEN [end |-> "done", attempts |-> n + 1, sleeps |-> sl + 1,
                             status |-> StatusOf(r), response |-> r]
                       ELSE RunAlone(os, n + 1, StatusOf(r), a + 1, sl + 1)

\* What session t has done.
Observed(t) ==
    [end |-> IF Done(t) THEN "done" ELSE IF Raised(t) THEN "raised" ELSE "running",
     attempts |-> Attempts(t), sleeps |-> sleeps[t], status |-> status[t],
     response |-> response[t]]

\* C19: whatever the other sessions do, a session that has ended has made
\* the attempts and sleeps and holds the status and response that a session
\* running alone has after the same outcomes; and a session that is about to
\* take the lock of safe_print can take it.
C19_NoInterference ==
    \A t \in Sessions :
        /\ Ended(t) => Observed(t) = RunAlone(log[t], 0, 0, 1, 0)
        /\ pc[t] = "sp_lock" => ENABLED SpLock(t)

\* One session has ended after three attempts while another is inside
\* safe_print for its second attempt.
C19_Witness ==
    \E s, t \in Sessions :
        /\ s # t
        /\ Done(s) /\ log[s] = << Answer(503), Answer(503), Answer(503) >>
        /\ sleeps[s] = 2 /\ response[s] = ResponseObj(3, 503)
        /\ InPrint(t) /\ Attempts(t) = 2

====
